---------------------------- MODULE Spec2Model ----------------------------
(***************************************************************************)
(* Model of the SanMar / S&S catalog proxy:                                *)
(*   src/api/sanmar.js        SOAP handler, walk, normalizeProducts,       *)
(*                            mapProduct, isProductish, nnum, pickImage    *)
(*   src/unnamed/part_000     normalizeProduct (the unified normalizer)    *)
(*   src/api/catalog/index.js the catalog handler with vendor fallback     *)
(*                                                                         *)
(* JavaScript values are tagged records:                                   *)
(*   [t |-> "str", s |-> <<"a","b">>]   a string, as a sequence of chars   *)
(*   [t |-> "num", n |-> 1250]          a finite number, in hundredths     *)
(*   [t |-> "nan"]                      NaN                                *)
(*   [t |-> "null"], [t |-> "undef"]    null, undefined                    *)
(*   [t |-> "map", kv |-> <<<<k, v>>, ...>>]  an object, keys in insertion *)
(*                                            order, k a char sequence     *)
(*   [t |-> "seq", items |-> <<v, ...>>]      an array                     *)
(* Numbers are fixed-point with two decimals (9.99 is 999), which is exact *)
(* for every numeric literal the inputs below contain.                     *)
(***************************************************************************)
EXTENDS Integers, Sequences, FiniteSets, TLC

VARIABLES
    pc,          \* position of the running function
    query,       \* the SOAP request's options: [normalize, listPath]
    upstream,    \* what the upstream exchange yields: [kind, status, text,
                 \* xml], xml being what the parser makes of text
    root,        \* the argument of normalizeProducts (productRoot || body)
    directProducts, \* normalizeProducts' local directProducts (or Null)
    buckets,     \* normalizeProducts' local buckets
    strategies,  \* the walks normalizeProducts has run so far, in order
    items,       \* the value normalizeProducts returned
    err,         \* name of the exception in flight or caught, "" if none
    res,         \* the response sent: [status, body]; status 0 while none
    fetches,     \* number of upstream calls made for this request
    rec,         \* input record of mapProduct / normalizeProduct
    mapped,      \* its result
    twice,       \* normalizeProduct applied to its own result
    supplier,    \* the catalog handler's local supplier
    rawData,     \* its local rawData
    source,      \* its local source
    calls,       \* the vendor fetches it has made, in order
    vendors      \* what each vendor's fetch yields for this request

\* the state of the catalog handler (catalog/index.js)
catalogVars == <<supplier, rawData, source, calls, vendors>>

vars == <<pc, query, upstream, root, directProducts, buckets, strategies,
          items, err, res, fetches, rec, mapped, twice, catalogVars>>

\* no catalog request is being served
CatalogIdle ==
    /\ supplier = [t |-> "undef"]
    /\ rawData = [t |-> "undef"]
    /\ source = [t |-> "undef"]
    /\ calls = <<>>
    /\ vendors = [sns |-> [kind |-> "none"], sanmar |-> [kind |-> "none"]]

---------------------------------------------------------------------------
(* Characters and strings                                                  *)

UpperS == <<"A","B","C","D","E","F","G","H","I","J","K","L","M",
            "N","O","P","Q","R","S","T","U","V","W","X","Y","Z">>
LowerS == <<"a","b","c","d","e","f","g","h","i","j","k","l","m",
            "n","o","p","q","r","s","t","u","v","w","x","y","z">>
DigitS == <<"0","1","2","3","4","5","6","7","8","9">>

\* the lower-case form of each upper-case letter
LowerTable ==
    [c \in {UpperS[i] : i \in 1..26} |->
        LowerS[CHOOSE i \in 1..26 : UpperS[i] = c]]

\* String.prototype.toLowerCase on one character
LowerChar(c) == IF c \in DOMAIN LowerTable THEN LowerTable[c] ELSE c

\* String.prototype.toLowerCase
ToLower(s) == [i \in 1..Len(s) |-> LowerChar(s[i])]

StartsWith(s, p) == Len(s) >= Len(p) /\ SubSeq(s, 1, Len(p)) = p
EndsWith(s, p) ==
    Len(s) >= Len(p) /\ SubSeq(s, Len(s) - Len(p) + 1, Len(s)) = p
Contains(s, p) ==
    \E i \in 0..(Len(s) - Len(p)) : SubSeq(s, i + 1, i + Len(p)) = p

sProduct  == <<"p","r","o","d","u","c","t">>
sProducts == <<"p","r","o","d","u","c","t","s">>
sItem     == <<"i","t","e","m">>
sImage    == <<"i","m","a","g","e">>
sResponse == <<"r","e","s","p","o","n","s","e">>
sResult   == <<"r","e","s","u","l","t">>
sHttp     == <<"h","t","t","p",":">>
sHttps    == <<"h","t","t","p","s",":">>

\* /products?$/i.test(key)           (sanmar.js:204)
ReProductsEnd(k) ==
    EndsWith(ToLower(k), sProduct) \/ EndsWith(ToLower(k), sProducts)
\* /product|item/i.test(key)         (sanmar.js:213-214)
ReProductOrItem(k) ==
    Contains(ToLower(k), sProduct) \/ Contains(ToLower(k), sItem)
\* /response$/i.test(k)              (sanmar.js:168)
ReResponseEnd(k) == EndsWith(ToLower(k), sResponse)
\* /result$/i.test(k)                (sanmar.js:173)
ReResultEnd(k) == EndsWith(ToLower(k), sResult)
\* /image/i.test(k)                  (sanmar.js:273)
ReImage(k) == Contains(ToLower(k), sImage)
\* /^https?:/i.test(s)               (sanmar.js:273)
ReHttp(s) == StartsWith(ToLower(s), sHttp) \/ StartsWith(ToLower(s), sHttps)

---------------------------------------------------------------------------
(* JavaScript values and coercions                                         *)

Str(s)    == [t |-> "str", s |-> s]
Num(n)    == [t |-> "num", n |-> n]
NaN       == [t |-> "nan"]
Null      == [t |-> "null"]
Undef     == [t |-> "undef"]
MapV(kv)  == [t |-> "map", kv |-> kv]
SeqV(xs)  == [t |-> "seq", items |-> xs]
EmptyStr  == Str(<<>>)

IsObject(v)  == v.t \in {"map", "seq"}      \* v && typeof v === 'object'
IsArray(v)   == v.t = "seq"                 \* Array.isArray(v)
IsNullish(v) == v.t \in {"null", "undef"}   \* v == null

\* ToBoolean
Truthy(v) ==
    CASE v.t = "str" -> v.s # <<>>
      [] v.t = "num" -> v.n # 0
      [] v.t \in {"map", "seq"} -> TRUE
      [] OTHER -> FALSE

\* a || b   and   a ?? b
OrElse(a, b)   == IF Truthy(a) THEN a ELSE b
Coalesce(a, b) == IF IsNullish(a) THEN b ELSE a

HasKey(v, k) == v.t = "map" /\ \E i \in 1..Len(v.kv) : v.kv[i][1] = k

\* v[k] / v.k for a non-nullish v: own property of a mapping, undefined on
\* anything else (no alias or path segment used here names a built-in
\* property of String, Number or Array).
Get(v, k) ==
    IF HasKey(v, k)
    THEN v.kv[CHOOSE i \in 1..Len(v.kv) : v.kv[i][1] = k][2]
    ELSE Undef

\* decimal digits of a natural number
RECURSIVE NatStr(_)
NatStr(n) ==
    IF n < 10 THEN <<DigitS[n + 1]>>
    ELSE NatStr(n \div 10) \o <<DigitS[(n % 10) + 1]>>

\* Number.prototype.toString on a fixed-point number of hundredths
NumStr(n) ==
    LET a == IF n < 0 THEN -n ELSE n
        f == a % 100
        frac == IF f = 0 THEN <<>>
                ELSE IF f % 10 = 0 THEN <<".", DigitS[(f \div 10) + 1]>>
                ELSE <<".", DigitS[(f \div 10) + 1], DigitS[(f % 10) + 1]>>
    IN  (IF n < 0 THEN <<"-">> ELSE <<>>) \o NatStr(a \div 100) \o frac

sObject == <<"[","o","b","j","e","c","t"," ","O","b","j","e","c","t","]">>
sNull   == <<"n","u","l","l">>
sUndef  == <<"u","n","d","e","f","i","n","e","d">>
sNaN    == <<"N","a","N">>

\* String(v); an array joins the strings of its elements with ",",
\* null and undefined elements giving "".
RECURSIVE ToStr(_)
RECURSIVE JoinStr(_)
JoinStr(xs) ==
    IF xs = <<>> THEN <<>>
    ELSE (IF IsNullish(xs[1]) THEN <<>> ELSE ToStr(xs[1]))
         \o (IF Len(xs) > 1 THEN <<",">> \o JoinStr(Tail(xs)) ELSE <<>>)
ToStr(v) ==
    CASE v.t = "str"   -> v.s
      [] v.t = "num"   -> NumStr(v.n)
      [] v.t = "nan"   -> sNaN
      [] v.t = "null"  -> sNull
      [] v.t = "undef" -> sUndef
      [] v.t = "map"   -> sObject
      [] v.t = "seq"   -> JoinStr(v.items)

IsDigit(c) == \E i \in 1..10 : DigitS[i] = c
DigitVal(c) == (CHOOSE i \in 1..10 : DigitS[i] = c) - 1
AllDigits(s) == \A i \in 1..Len(s) : IsDigit(s[i])

RECURSIVE DigitsVal(_)
DigitsVal(s) ==
    IF s = <<>> THEN 0
    ELSE 10 * DigitsVal(SubSeq(s, 1, Len(s) - 1)) + DigitVal(s[Len(s)])

RECURSIVE TrimLeft(_)
TrimLeft(s) == IF s # <<>> /\ s[1] = " " THEN TrimLeft(Tail(s)) ELSE s
RECURSIVE TrimRight(_)
TrimRight(s) ==
    IF s # <<>> /\ s[Len(s)] = " "
    THEN TrimRight(SubSeq(s, 1, Len(s) - 1)) ELSE s

\* StringToNumber for an unsigned decimal literal d+ | d+.d* | .d+ with at
\* most two fraction digits (the fixed-point precision); NaN otherwise.
ParseUnsigned(s) ==
    LET dots == {i \in 1..Len(s) : s[i] = "."}
    IN  IF dots = {}
        THEN IF s # <<>> /\ AllDigits(s) THEN Num(100 * DigitsVal(s)) ELSE NaN
        ELSE LET d  == CHOOSE i \in dots : \A j \in dots : i <= j
                 ip == SubSeq(s, 1, d - 1)
                 fp == SubSeq(s, d + 1, Len(s))
             IN  IF /\ AllDigits(ip) /\ AllDigits(fp)
                    /\ Len(ip) + Len(fp) > 0 /\ Len(fp) <= 2
                 THEN Num(100 * DigitsVal(ip)
                          + (IF Len(fp) = 0 THEN 0
                             ELSE IF Len(fp) = 1 THEN 10 * DigitsVal(fp)
                             ELSE DigitsVal(fp)))
                 ELSE NaN

\* Number(s) for a string: white space trimmed, "" is 0, optional sign
ParseNum(s) ==
    LET u == TrimRight(TrimLeft(s))
    IN  IF u = <<>> THEN Num(0)
        ELSE IF u[1] = "-"
             THEN LET r == ParseUnsigned(Tail(u))
                  IN  IF r.t = "num" THEN Num(-(r.n)) ELSE NaN
        ELSE IF u[1] = "+" THEN ParseUnsigned(Tail(u))
        ELSE ParseUnsigned(u)

\* Number(v): undefined is NaN, null is 0, an object is NaN, an array goes
\* through its string
ToNumber(v) ==
    CASE v.t = "num"   -> v
      [] v.t = "nan"   -> NaN
      [] v.t = "str"   -> ParseNum(v.s)
      [] v.t = "null"  -> Num(0)
      [] v.t = "undef" -> NaN
      [] v.t = "map"   -> NaN
      [] v.t = "seq"   -> ParseNum(ToStr(v))

---------------------------------------------------------------------------
(* Property names the code reads (sanmar.js:82-85, 205, 235-243)           *)

K ==
  [
    SKU |-> <<"S","K","U">>,
    Sku |-> <<"S","k","u">>,
    PartNumber |-> <<"P","a","r","t","N","u","m","b","e","r">>,
    PartNo |-> <<"P","a","r","t","N","o">>,
    StyleNumber |-> <<"S","t","y","l","e","N","u","m","b","e","r">>,
    StyleNo |-> <<"S","t","y","l","e","N","o">>,
    ItemNumber |-> <<"I","t","e","m","N","u","m","b","e","r">>,
    ItemNo |-> <<"I","t","e","m","N","o">>,
    Id |-> <<"I","d">>,
    ID |-> <<"I","D">>,
    Brand |-> <<"B","r","a","n","d">>,
    BrandName |-> <<"B","r","a","n","d","N","a","m","e">>,
    Mill |-> <<"M","i","l","l">>,
    MillName |-> <<"M","i","l","l","N","a","m","e">>,
    Style |-> <<"S","t","y","l","e">>,
    StyleName |-> <<"S","t","y","l","e","N","a","m","e">>,
    ProductName |-> <<"P","r","o","d","u","c","t","N","a","m","e">>,
    Name |-> <<"N","a","m","e">>,
    DescriptionShort |-> <<"D","e","s","c","r","i","p","t","i","o","n","S","h","o","r","t">>,
    Description |-> <<"D","e","s","c","r","i","p","t","i","o","n">>,
    Color |-> <<"C","o","l","o","r">>,
    ColorName |-> <<"C","o","l","o","r","N","a","m","e">>,
    ColorDesc |-> <<"C","o","l","o","r","D","e","s","c">>,
    Size |-> <<"S","i","z","e">>,
    SizeName |-> <<"S","i","z","e","N","a","m","e">>,
    ProductTitle |-> <<"P","r","o","d","u","c","t","T","i","t","l","e">>,
    DescriptionLong |-> <<"D","e","s","c","r","i","p","t","i","o","n","L","o","n","g">>,
    Price |-> <<"P","r","i","c","e">>,
    CustomerPrice |-> <<"C","u","s","t","o","m","e","r","P","r","i","c","e">>,
    SalePrice |-> <<"S","a","l","e","P","r","i","c","e">>,
    Cost |-> <<"C","o","s","t">>,
    ImageFrontURL |-> <<"I","m","a","g","e","F","r","o","n","t","U","R","L">>,
    ImageURL |-> <<"I","m","a","g","e","U","R","L">>,
    Image |-> <<"I","m","a","g","e">>,
    ImageBackURL |-> <<"I","m","a","g","e","B","a","c","k","U","R","L">>,
    BackImageURL |-> <<"B","a","c","k","I","m","a","g","e","U","R","L">>,
    Product |-> <<"P","r","o","d","u","c","t">>,
    Envelope |-> <<"E","n","v","e","l","o","p","e">>,
    Body |-> <<"B","o","d","y">>,
    Fault |-> <<"F","a","u","l","t">>,
    faultstring |-> <<"f","a","u","l","t","s","t","r","i","n","g">>,
    SoapEnvelope |-> <<"s","o","a","p",":","E","n","v","e","l","o","p","e">>,
    SoapBody |-> <<"s","o","a","p",":","B","o","d","y">>,
    SoapFault |-> <<"s","o","a","p",":","F","a","u","l","t">>
  ]
sSoapFault    == <<"S","O","A","P"," ","F","a","u","l","t">>

---------------------------------------------------------------------------
(* Tree walker (sanmar.js:177-181)                                         *)

\* walk(node, fn, key): the sequence of fn's calls, [node, key], in order
RECURSIVE Walk(_, _)
RECURSIVE WalkItems(_, _)
RECURSIVE WalkFields(_)
\* the loop over an array with the elements visited under no key
WalkItems_Unkeyed(xs, key) ==
    IF xs = <<>> THEN <<>>
    ELSE Walk(xs[1], <<>>) \o WalkItems(Tail(xs), key)
\* for (const item of node) walk(item, fn, key)
WalkItems(xs, key) ==
    IF xs = <<>> THEN <<>> ELSE Walk(xs[1], key) \o WalkItems(Tail(xs), key)
WalkFields(kv) ==
    IF kv = <<>> THEN <<>>
    ELSE Walk(kv[1][2], kv[1][1]) \o WalkFields(Tail(kv))
Walk(node, key) ==
    <<[node |-> node, key |-> key]>>
    \o (IF IsArray(node) THEN WalkItems(node.items, key)
        ELSE IF node.t = "map" THEN WalkFields(node.kv)
        ELSE <<>>)

---------------------------------------------------------------------------
(* Field mapper (sanmar.js:234-273)                                        *)

\* a || b || ... || z over the listed values
RECURSIVE OrChain(_)
OrChain(vs) ==
    IF Len(vs) = 1 THEN vs[1]
    ELSE IF Truthy(vs[1]) THEN vs[1] ELSE OrChain(Tail(vs))

\* a ?? b ?? ... ?? z over the listed values
RECURSIVE CoalesceChain(_)
CoalesceChain(vs) ==
    IF Len(vs) = 1 THEN vs[1]
    ELSE IF ~IsNullish(vs[1]) THEN vs[1] ELSE CoalesceChain(Tail(vs))

\* nnum(v): Number(v) when finite, else null
nnum(v) == LET n == ToNumber(v) IN IF n.t = "num" THEN n ELSE Null

\* pickImage(p): the first key matching /image/i whose value is a string
\* starting with http: or https:, else null
pickImage(p) ==
    IF p.t # "map" THEN Null
    ELSE LET hits == {i \in 1..Len(p.kv) :
                         /\ ReImage(p.kv[i][1])
                         /\ p.kv[i][2].t = "str"
                         /\ ReHttp(p.kv[i][2].s)}
         IN  IF hits = {} THEN Null
             ELSE p.kv[CHOOSE i \in hits : \A j \in hits : i <= j][2]

SkuAliases == <<K.SKU, K.Sku, K.PartNumber, K.PartNo, K.StyleNumber, K.StyleNo,
                K.ItemNumber, K.ItemNo, K.Id, K.ID>>
PriceAliases == <<K.Price, K.CustomerPrice, K.SalePrice, K.Cost>>

\* the values of the listed properties of p, in order
Props(p, ks) == [i \in 1..Len(ks) |-> Get(p, ks[i])]

\* property access on null or undefined raises a TypeError
mapProductThrows(p) == IsNullish(p)

\* x ? String(x) : ''
StrOrEmpty(x) == IF Truthy(x) THEN ToStr(x) ELSE <<>>

mapProduct(p) ==
    LET sku   == OrChain(Props(p, SkuAliases))
        brand == OrChain(Props(p, <<K.Brand, K.BrandName, K.Mill, K.MillName>>))
        style == OrChain(Props(p, <<K.Style, K.StyleName, K.ProductName, K.Name,
                                    K.DescriptionShort, K.Description>>))
        color == OrChain(Props(p, <<K.Color, K.ColorName, K.ColorDesc>>))
        size  == OrChain(Props(p, <<K.Size, K.SizeName>>))
        title == OrChain(Props(p, <<K.Description, K.ProductTitle, K.ProductName,
                                    K.DescriptionLong>>) \o <<style>>)
        price == CoalesceChain(
                     [i \in 1..Len(PriceAliases) |->
                         nnum(Get(p, PriceAliases[i]))] \o <<Num(0)>>)
        imgFront == OrChain(Props(p, <<K.ImageFrontURL, K.ImageURL, K.Image>>)
                            \o <<pickImage(p)>>)
        imgBack  == OrChain(Props(p, <<K.ImageBackURL, K.BackImageURL>>)
                            \o <<Null>>)
    IN  [sku             |-> ToStr(Coalesce(sku, EmptyStr)),
         brandName       |-> StrOrEmpty(brand),
         styleName       |-> StrOrEmpty(style),
         colorName       |-> StrOrEmpty(color),
         sizeName        |-> StrOrEmpty(size),
         title           |-> StrOrEmpty(title),
         customerPrice   |-> price,
         colorFrontImage |-> OrElse(imgFront, EmptyStr),
         colorBackImage  |-> OrElse(imgBack, EmptyStr),
         source          |-> "sanmar"]

\* xs.map(mapProduct), for xs on which mapProduct does not throw
MapAll(xs) == [i \in 1..Len(xs) |-> mapProduct(xs[i])]
MapAllThrows(xs) == \E i \in 1..Len(xs) : mapProductThrows(xs[i])

\* isProductish with the brandname test left out
isProductish_NoBrandName(obj) ==
    /\ obj.t = "map"
    /\ \E i \in 1..Len(obj.kv) :
          ToLower(obj.kv[i][1]) \in
              { <<"s","k","u">>,
                <<"p","a","r","t","n","u","m","b","e","r">>,
                <<"s","t","y","l","e","n","u","m","b","e","r">>,
                <<"p","r","o","d","u","c","t","n","a","m","e">>,
                <<"b","r","a","n","d">> }

ProductishKeys ==
    { <<"s","k","u">>,
      <<"p","a","r","t","n","u","m","b","e","r">>,
      <<"s","t","y","l","e","n","u","m","b","e","r">>,
      <<"p","r","o","d","u","c","t","n","a","m","e">>,
      <<"b","r","a","n","d">>,
      <<"b","r","a","n","d","n","a","m","e">> }

\* isProductish(obj)  (sanmar.js:259-270)
isProductish(obj) ==
    /\ obj.t = "map"
    /\ \E i \in 1..Len(obj.kv) : ToLower(obj.kv[i][1]) \in ProductishKeys

---------------------------------------------------------------------------
(* Product locator and deduplicator (sanmar.js:194-232)                    *)

\* the visitor of the first walk, applied to the calls vs in order
\* (sanmar.js:202-208); dp is directProducts so far
RECURSIVE DirectFold(_, _)
DirectFold(vs, dp) ==
    IF vs = <<>> THEN dp
    ELSE LET node == vs[1].node
             key  == vs[1].key
             prod == Get(node, K.Product)
             arr  == IF IsArray(prod) THEN prod
                     ELSE IF Truthy(prod) THEN SeqV(<<prod>>) ELSE Null
             hit  == /\ key # <<>>
                     /\ ReProductsEnd(key)
                     /\ IsObject(node)
                     /\ arr # Null
                     /\ Len(arr.items) > 0
         IN  DirectFold(Tail(vs), IF hit THEN arr ELSE dp)

\* the visitor of the second walk (sanmar.js:212-215); bs is buckets so far
RECURSIVE KeyedFold(_, _)
KeyedFold(vs, bs) ==
    IF vs = <<>> THEN bs
    ELSE LET node == vs[1].node
             key  == vs[1].key
             b1 == IF IsArray(node) /\ ReProductOrItem(key)
                   THEN bs \o node.items ELSE bs
             b2 == IF node.t = "map" /\ ReProductOrItem(key)
                   THEN Append(b1, node) ELSE b1
         IN  KeyedFold(Tail(vs), b2)

\* the visitor of the third walk (sanmar.js:219-224)
RECURSIVE SniffFold(_, _)
SniffFold(vs, bs) ==
    IF vs = <<>> THEN bs
    ELSE LET node == vs[1].node
             pick == IF IsArray(node)
                     THEN SelectSeq(node.items, isProductish) ELSE <<>>
         IN  SniffFold(Tail(vs), bs \o pick)

\* a deduplication key that leaves the size out
DedupKey_SkuOnly(x) == x.sku

\* `${x.sku}|${x.sizeName}`  (sanmar.js:228)
DedupKey(x) == x.sku \o <<"|">> \o x.sizeName

\* arr.findIndex(y => key(y) === key): first index, or 0 when none
FindIndex(arr, key) ==
    LET hits == {j \in 1..Len(arr) : DedupKey(arr[j]) = key}
    IN  IF hits = {} THEN 0 ELSE CHOOSE j \in hits : \A h \in hits : j <= h

\* arr.filter((x, i, arr) => findIndex(...) === i)  (sanmar.js:227-231)
RECURSIVE DedupFrom(_, _)
DedupFrom(arr, i) ==
    IF i > Len(arr) THEN <<>>
    ELSE (IF FindIndex(arr, DedupKey(arr[i])) = i THEN <<arr[i]>> ELSE <<>>)
         \o DedupFrom(arr, i + 1)
Dedup(arr) == DedupFrom(arr, 1)

\* a guard that lets the third walk run whatever the buckets hold
SniffGuard_Always(bs) == Len(bs) >= 0

\* the guard of the third walk: !buckets.length  (sanmar.js:218)
SniffGuard(bs) == Len(bs) = 0

---------------------------------------------------------------------------
(* SOAP handler helpers (sanmar.js:82-93, 166-192)                         *)

\* v?.k
Opt(v, k) == IF IsNullish(v) THEN Undef ELSE Get(v, k)

\* index into node.kv of the first key k of Object.keys(node) with
\* /response$/i.test(k), or 0 (the keys of an array are its indices, which
\* never match)
FirstResponseKey(node) ==
    IF node.t # "map" THEN 0
    ELSE LET hits == {i \in 1..Len(node.kv) : ReResponseEnd(node.kv[i][1])}
         IN  IF hits = {} THEN 0
             ELSE CHOOSE i \in hits : \A j \in hits : i <= j

\* the same for /result$/i
FirstResultKey(node) ==
    IF node.t # "map" THEN 0
    ELSE LET hits == {i \in 1..Len(node.kv) : ReResultEnd(node.kv[i][1])}
         IN  IF hits = {} THEN 0
             ELSE CHOOSE i \in hits : \A j \in hits : i <= j

\* pickResponseNode(body)  (sanmar.js:166-170)
pickResponseNode(body) ==
    IF ~IsObject(body) THEN body
    ELSE LET i == FirstResponseKey(body)
         IN  IF i = 0 THEN body ELSE body.kv[i][2]

\* pickResultNode(node)  (sanmar.js:171-175)
pickResultNode(node) ==
    IF ~IsObject(node) THEN node
    ELSE LET i == FirstResultKey(node)
         IN  IF i = 0 THEN node ELSE node.kv[i][2]

\* path.split('.').filter(Boolean)
RECURSIVE SplitDots(_, _)
SplitDots(s, cur) ==
    IF s = <<>> THEN (IF cur = <<>> THEN <<>> ELSE <<cur>>)
    ELSE IF s[1] = "."
         THEN (IF cur = <<>> THEN <<>> ELSE <<cur>>) \o SplitDots(Tail(s), <<>>)
         ELSE SplitDots(Tail(s), Append(cur, s[1]))

\* cur[p]: a property of a mapping, an element of an array or a character
\* of a string when p is an index, undefined otherwise
Index(cur, p) ==
    LET isIdx == p # <<>> /\ AllDigits(p)
        i     == DigitsVal(p) + 1
    IN  IF cur.t = "map" THEN Get(cur, p)
        ELSE IF cur.t = "seq" /\ isIdx /\ i <= Len(cur.items)
             THEN cur.items[i]
        ELSE IF cur.t = "str" /\ isIdx /\ i <= Len(cur.s)
             THEN Str(<<cur.s[i]>>)
        ELSE Undef

\* the loop of getByPath  (sanmar.js:187-190)
RECURSIVE FollowPath(_, _)
FollowPath(cur, parts) ==
    IF parts = <<>> THEN cur
    ELSE IF IsNullish(cur) THEN cur
    ELSE FollowPath(Index(cur, parts[1]), Tail(parts))

\* getByPath(obj, path)  (sanmar.js:183-192)
getByPath(obj, path) ==
    IF path = <<>> THEN obj ELSE FollowPath(obj, SplitDots(path, <<>>))

\* xml?.Envelope || xml?.['soap:Envelope'] || xml  (sanmar.js:82)
EnvOf(xml) == OrChain(<<Opt(xml, K.Envelope), Opt(xml, K.SoapEnvelope), xml>>)
\* env?.Body || env?.['soap:Body'] || xml  (sanmar.js:83)
BodyOf(xml) ==
    OrChain(<<Opt(EnvOf(xml), K.Body), Opt(EnvOf(xml), K.SoapBody), xml>>)
\* body?.Fault || body?.['soap:Fault']  (sanmar.js:84)
FaultOf(xml) ==
    OrElse(Opt(BodyOf(xml), K.Fault), Opt(BodyOf(xml), K.SoapFault))

\* resultNode  (sanmar.js:88-89)
ResultNodeOf(xml) == pickResultNode(pickResponseNode(BodyOf(xml)))
\* productRoot  (sanmar.js:92-93)
ProductRootOf(xml, listPath) ==
    IF listPath # <<>> THEN getByPath(ResultNodeOf(xml), listPath)
    ELSE ResultNodeOf(xml)

\* The raw payload is a sequence of runs of characters, [part, len]: part
\* says what the run is part of ("fault" for the text of the Fault
\* element, "xml" for the text around it, "junk" for what the parser
\* rejects), len how many characters it has.
RECURSIVE TextLen(_)
TextLen(text) ==
    IF text = <<>> THEN 0 ELSE text[1].len + TextLen(Tail(text))

\* text.slice(0, n)
RECURSIVE Slice(_, _)
Slice(text, n) ==
    IF text = <<>> \/ n <= 0 THEN <<>>
    ELSE IF text[1].len <= n
         THEN <<text[1]>> \o Slice(Tail(text), n - text[1].len)
         ELSE <<[part |-> text[1].part, len |-> n]>>

\* rawText.slice(0, 1400)  (sanmar.js:73)
SnippetLimit == 1400

---------------------------------------------------------------------------
(* The SOAP handler as a state machine (sanmar.js:18-125).  The request    *)
(* options and the upstream's behaviour are fixed by the initial state.    *)

\* the call of fetch  (sanmar.js:61-65): an aborted or failed exchange
\* rejects, and control passes to the catch clause
Fetch ==
    /\ pc = "start"
    /\ fetches' = fetches + 1
    /\ IF upstream.kind = "abort"
       THEN pc' = "catch" /\ err' = "AbortError"
       ELSE IF upstream.kind = "neterr"
       THEN pc' = "catch" /\ err' = "TypeError"
       ELSE pc' = "fetched" /\ err' = err
    /\ UNCHANGED <<twice, catalogVars, query, upstream, root, directProducts, buckets,
                   strategies, items, res, rec, mapped>>

\* const rawText = await resp.text()  (sanmar.js:67).  The timer was
\* cleared when fetch resolved (sanmar.js:65), so nothing ends the wait
\* for a body that never completes.
ReadBody ==
    /\ pc = "fetched"
    /\ upstream.kind # "stall"
    /\ IF upstream.kind = "bodyerr"
       THEN pc' = "catch" /\ err' = "TypeError"
       ELSE pc' = "read" /\ err' = err
    /\ UNCHANGED <<twice, catalogVars, query, upstream, root, directProducts,
                   buckets, strategies, items, res, fetches, rec, mapped>>

\* !resp.ok  (sanmar.js:68-75)
HttpError ==
    /\ pc = "read"
    /\ upstream.kind = "http"
    /\ res' = [status |-> upstream.status,
               body |-> [ok |-> FALSE, status |-> upstream.status,
                         bodySnippet |-> Slice(upstream.text, SnippetLimit)]]
    /\ pc' = "done"
    /\ UNCHANGED <<twice, catalogVars, query, upstream, root, directProducts, buckets,
                   strategies, items, err, fetches, rec, mapped>>

\* parser.parse(rawText)  (sanmar.js:78-79); a payload the parser rejects
\* makes it throw
ParseXml ==
    /\ pc = "read"
    /\ upstream.kind \in {"ok", "badxml"}
    /\ IF upstream.kind = "badxml"
       THEN pc' = "catch" /\ err' = "Error"
       ELSE pc' = "parsed" /\ err' = err
    /\ UNCHANGED <<twice, catalogVars, query, upstream, root, directProducts, buckets,
                   strategies, items, res, fetches, rec, mapped>>

\* if (fault) return res.status(502)...  (sanmar.js:84-85)
Fault ==
    /\ pc = "parsed"
    /\ Truthy(FaultOf(upstream.xml))
    /\ res' = [status |-> 502,
               body |-> [ok |-> FALSE,
                         fault |-> FaultOf(upstream.xml),
                         message |->
                             OrElse(Opt(FaultOf(upstream.xml), K.faultstring),
                                    Str(sSoapFault))]]
    /\ pc' = "done"
    /\ UNCHANGED <<twice, catalogVars, query, upstream, root, directProducts, buckets,
                   strategies, items, err, fetches, rec, mapped>>

\* pick the response and result nodes, follow listPath  (sanmar.js:88-96)
Locate ==
    /\ pc = "parsed"
    /\ ~Truthy(FaultOf(upstream.xml))
    /\ root' = OrElse(ProductRootOf(upstream.xml, query.listPath),
                      BodyOf(upstream.xml))
    /\ pc' = IF query.normalize THEN "normalize" ELSE "raw"
    /\ UNCHANGED <<twice, catalogVars, query, upstream, directProducts, buckets, strategies,
                   items, err, res, fetches, rec, mapped>>

\* data = { ...data, raw: productRoot || resultNode || body }
\* (sanmar.js:100, 120)
RespondRaw ==
    /\ pc = "raw"
    /\ res' = [status |-> 200,
               body |-> [ok |-> TRUE, source |-> "sanmar",
                         raw |-> OrChain(
                             <<ProductRootOf(upstream.xml, query.listPath),
                               ResultNodeOf(upstream.xml),
                               BodyOf(upstream.xml)>>)]]
    /\ pc' = "done"
    /\ UNCHANGED <<twice, catalogVars, query, upstream, root, directProducts, buckets,
                   strategies, items, err, fetches, rec, mapped>>

\* normalizeProducts: if (Array.isArray(body)) return body.map(mapProduct)
\* (sanmar.js:198)
ArrayShortcut ==
    /\ pc = "normalize"
    /\ IsArray(root)
    /\ IF MapAllThrows(root.items)
       THEN pc' = "catch" /\ err' = "TypeError" /\ items' = items
       ELSE pc' = "respond" /\ err' = err /\ items' = MapAll(root.items)
    /\ UNCHANGED <<twice, catalogVars, query, upstream, root, directProducts, buckets,
                   strategies, res, fetches, rec, mapped>>

\* the first walk  (sanmar.js:201-208)
WalkDirect ==
    /\ pc = "normalize"
    /\ ~IsArray(root)
    /\ directProducts' = DirectFold(Walk(root, <<>>), Null)
    /\ strategies' = Append(strategies, "direct")
    /\ pc' = "np_direct"
    /\ UNCHANGED <<twice, catalogVars, query, upstream, root, buckets, items, err, res,
                   fetches, rec, mapped>>

\* if (directProducts) return directProducts.map(mapProduct)
\* (sanmar.js:209)
ReturnDirect ==
    /\ pc = "np_direct"
    /\ directProducts # Null
    /\ IF MapAllThrows(directProducts.items)
       THEN pc' = "catch" /\ err' = "TypeError" /\ items' = items
       ELSE /\ pc' = "respond" /\ err' = err
            /\ items' = MapAll(directProducts.items)
    /\ UNCHANGED <<twice, catalogVars, query, upstream, root, directProducts, buckets,
                   strategies, res, fetches, rec, mapped>>

\* the second walk  (sanmar.js:212-215)
WalkKeyed ==
    /\ pc = "np_direct"
    /\ directProducts = Null
    /\ buckets' = KeyedFold(Walk(root, <<>>), buckets)
    /\ strategies' = Append(strategies, "keyed")
    /\ pc' = "np_keyed"
    /\ UNCHANGED <<twice, catalogVars, query, upstream, root, directProducts, items, err, res,
                   fetches, rec, mapped>>

\* the third walk, taken if (!buckets.length)  (sanmar.js:218-225)
WalkSniff ==
    /\ pc = "np_keyed"
    /\ SniffGuard(buckets)
    /\ buckets' = SniffFold(Walk(root, <<>>), buckets)
    /\ strategies' = Append(strategies, "sniff")
    /\ pc' = "np_dedup"
    /\ UNCHANGED <<twice, catalogVars, query, upstream, root, directProducts, items, err, res,
                   fetches, rec, mapped>>

SkipSniff ==
    /\ pc = "np_keyed"
    /\ ~SniffGuard(buckets)
    /\ pc' = "np_dedup"
    /\ UNCHANGED <<twice, catalogVars, query, upstream, root, directProducts, buckets,
                   strategies, items, err, res, fetches, rec, mapped>>

\* return buckets.map(mapProduct).filter(...)  (sanmar.js:227-231)
MapDedup ==
    /\ pc = "np_dedup"
    /\ IF MapAllThrows(buckets)
       THEN pc' = "catch" /\ err' = "TypeError" /\ items' = items
       ELSE pc' = "respond" /\ err' = err /\ items' = Dedup(MapAll(buckets))
    /\ UNCHANGED <<twice, catalogVars, query, upstream, root, directProducts, buckets,
                   strategies, res, fetches, rec, mapped>>

\* data = { ...data, items, count: items.length }; res.status(200).json(data)
\* (sanmar.js:95-98, 120)
Respond ==
    /\ pc = "respond"
    /\ res' = [status |-> 200,
               body |-> [ok |-> TRUE, source |-> "sanmar",
                         items |-> items, count |-> Len(items)]]
    /\ pc' = "done"
    /\ UNCHANGED <<twice, catalogVars, query, upstream, root, directProducts, buckets,
                   strategies, items, err, fetches, rec, mapped>>

\* the catch clause  (sanmar.js:121-124)
Catch ==
    /\ pc = "catch"
    /\ res' = [status |-> IF err = "AbortError" THEN 504 ELSE 500,
               body |-> [ok |-> FALSE, error |-> err]]
    /\ pc' = "done"
    /\ UNCHANGED <<twice, catalogVars, query, upstream, root, directProducts, buckets,
                   strategies, items, err, fetches, rec, mapped>>

---------------------------------------------------------------------------
(* Inputs                                                                  *)

\* longest sequence of elements in an input tree
MaxItems == 2

TreeKey ==
  [
    Products |-> <<"P","r","o","d","u","c","t","s">>,
    Items |-> <<"I","t","e","m","s">>,
    Item |-> <<"I","t","e","m">>,
    Data |-> <<"D","a","t","a">>,
    Rows |-> <<"R","o","w","s">>,
    brandName |-> <<"b","r","a","n","d","N","a","m","e">>,
    FindResponse |-> <<"F","i","n","d","R","e","s","p","o","n","s","e">>,
    FindResult |-> <<"F","i","n","d","R","e","s","u","l","t">>
  ]

R1 == MapV(<< <<K.SKU, Str(<<"a","|","b">>)>>, <<K.Size, Str(<<"c">>)>> >>)
R2 == MapV(<< <<K.SKU, Str(<<"a">>)>>, <<K.Size, Str(<<"b","|","c">>)>> >>)
R3 == MapV(<< <<K.SKU, Str(<<"a">>)>>, <<K.Size, Str(<<"c">>)>> >>)
R4 == MapV(<< <<TreeKey.brandName, Str(<<"X">>)>> >>)
R5 == MapV(<< <<TreeKey.brandName, Str(<<"Y">>)>>, <<K.PartNumber, Str(<<"p">>)>> >>)
R6 == MapV(<< <<K.Size, Str(<<"c">>)>> >>)

Elements == {R1, R2, R3, R4, R5, R6, Null}

SeqsUpTo(S, n) == UNION {[1..k -> S] : k \in 0..n}
MainLists == SeqsUpTo(Elements, MaxItems)
\* what a tree holds beside its main sequence
SideLists == {<<>>, <<R3>>, <<R4>>, <<Null>>, <<Str(<<"x">>)>>, <<R4, R3>>}

DirectTree(l1, l2) ==
    MapV(<< <<TreeKey.Products, MapV(<< <<K.Product, SeqV(l1)>> >>)>>,
            <<TreeKey.Items, SeqV(l2)>> >>)
KeyedTree(l1, l2) == MapV(<< <<TreeKey.Items, SeqV(l1)>>, <<TreeKey.Data, SeqV(l2)>> >>)
SniffTree(l1, l2) == MapV(<< <<TreeKey.Data, SeqV(l1)>>, <<TreeKey.Rows, SeqV(l2)>> >>)

Trees ==
    {SeqV(l) : l \in MainLists}
    \cup {DirectTree(l1, l2) : l1 \in MainLists, l2 \in SideLists}
    \cup {KeyedTree(l1, l2) : l1 \in MainLists, l2 \in SideLists}
    \cup {SniffTree(l1, l2) : l1 \in MainLists, l2 \in SideLists}
    \cup {MapV(<< <<TreeKey.Data, SeqV(l)>> >>) : l \in MainLists}
    \cup {MapV(<< <<TreeKey.Products, MapV(<< <<K.Product, e>> >>)>> >>) :
             e \in Elements}
    \cup {MapV(<< <<TreeKey.Item, e>> >>) : e \in Elements}
    \cup {Null, EmptyStr, Str(<<"x">>), Num(0), MapV(<<>>)}

SmallTrees ==
    {SeqV(l) : l \in SideLists}
    \cup {DirectTree(l1, l2) : l1 \in SideLists, l2 \in SideLists}
    \cup {KeyedTree(l1, l2) : l1 \in SideLists, l2 \in SideLists}

\* a SOAP envelope around a result
Wrap(t) ==
    MapV(<< <<K.Envelope, MapV(<< <<K.Body, MapV(<<
        <<TreeKey.FindResponse, MapV(<< <<TreeKey.FindResult, t>> >>)>> >>)>> >>)>> >>)

FaultEnvelope ==
    MapV(<< <<K.Envelope, MapV(<< <<K.Body, MapV(<<
        <<K.Fault, MapV(<< <<K.faultstring, Str(<<"b","a","d">>)>> >>)>>
        >>)>> >>)>> >>)

ListPaths ==
    { <<"P","r","o","d","u","c","t","s",".","P","r","o","d","u","c","t">>,
      <<"I","t","e","m","s">>,
      <<"N","o","p","e",".","x">> }

\* payloads: well-formed XML, a fault envelope with pre characters before
\* the Fault element, and text the parser rejects
XmlText == <<[part |-> "xml", len |-> 300]>>
FaultText(pre) ==
    <<[part |-> "xml", len |-> pre], [part |-> "fault", len |-> 200],
      [part |-> "xml", len |-> 40]>>
JunkText == <<[part |-> "junk", len |-> 2000]>>

Ok(xml) == [kind |-> "ok", status |-> 200, text |-> XmlText, xml |-> xml]
OkFault(pre) ==
    [kind |-> "ok", status |-> 200, text |-> FaultText(pre), xml |-> FaultEnvelope]

HandlerInputs ==
    {[query |-> [normalize |-> TRUE, listPath |-> <<>>], upstream |-> Ok(Wrap(t))]
        : t \in Trees}
    \cup {[query |-> [normalize |-> n, listPath |-> lp], upstream |-> Ok(Wrap(t))]
        : n \in BOOLEAN, lp \in ListPaths \cup {<<>>}, t \in SmallTrees}
    \cup {[query |-> [normalize |-> TRUE, listPath |-> <<>>], upstream |-> Ok(t)]
        : t \in SmallTrees}
    \cup {[query |-> [normalize |-> n, listPath |-> <<>>], upstream |-> OkFault(pre)]
        : n \in BOOLEAN, pre \in {100, 1300}}
    \cup {[query |-> [normalize |-> n, listPath |-> <<>>],
           upstream |-> [kind |-> k, status |-> 0, text |-> <<>>, xml |-> Null]]
        : n \in BOOLEAN, k \in {"abort", "neterr", "bodyerr"}}
    \cup {[query |-> [normalize |-> n, listPath |-> <<>>],
           upstream |-> [kind |-> k, status |-> 200, text |-> txt, xml |-> Null]]
        : n \in BOOLEAN, k \in {"badxml", "stall"}, txt \in {JunkText}}
    \cup {[query |-> [normalize |-> n, listPath |-> <<>>],
           upstream |-> [kind |-> "http", status |-> s, text |-> FaultText(pre),
                         xml |-> FaultEnvelope]]
        : n \in BOOLEAN, s \in {400, 500}, pre \in {100, 1300}}
    \cup {[query |-> [normalize |-> TRUE, listPath |-> <<>>],
           upstream |-> [kind |-> "http", status |-> 404, text |-> XmlText,
                         xml |-> MapV(<<>>)]]}

Init ==
    /\ pc = "start"
    /\ \E inp \in HandlerInputs :
          query = inp.query /\ upstream = inp.upstream
    /\ root = Undef
    /\ directProducts = Null
    /\ buckets = <<>>
    /\ strategies = <<>>
    /\ items = <<>>
    /\ err = ""
    /\ res = [status |-> 0, body |-> Null]
    /\ fetches = 0
    /\ rec = Null
    /\ mapped = Null
    /\ twice = Null
    /\ CatalogIdle

Next ==
    \/ Fetch \/ ReadBody \/ HttpError \/ ParseXml \/ Fault \/ Locate \/ RespondRaw
    \/ ArrayShortcut \/ WalkDirect \/ ReturnDirect \/ WalkKeyed
    \/ WalkSniff \/ SkipSniff \/ MapDedup \/ Respond \/ Catch

Spec == Init /\ [][Next]_vars

\* the handler has a step to take: it has not responded, and it is not
\* waiting for a body that never completes
Running == pc # "done" /\ ~(pc = "fetched" /\ upstream.kind = "stall")

\* the positions of the handler
Positions ==
    {"start", "fetched", "read", "parsed", "normalize", "raw", "np_direct",
     "np_keyed", "np_dedup", "respond", "catch", "done"}

\* a step of the handler, seen as a change of position only
Advance == Running /\ pc' \in Positions /\ pc' # pc

\* The event loop runs the handler whenever it has a step to take: weak
\* fairness of its steps.  Every step of Next changes pc and Next is
\* enabled exactly when Running holds, so WF_pc(Advance) is WF_vars(Next)
\* with the enabling condition spelled out.
SpecLive == Init /\ [][Next]_vars /\ WF_pc(Advance)

---------------------------------------------------------------------------
(* Properties of normalizeProducts and of the handler around it            *)

\* normalizeProducts has returned to the handler without throwing
Returned == pc = "respond"

SamePair(x, y) == x.sku = y.sku /\ x.sizeName = y.sizeName

\* the records of arr whose (sku, sizeName) pair occurs at no earlier place
RECURSIVE FirstOfEachPair(_, _)
FirstOfEachPair(arr, i) ==
    IF i > Len(arr) THEN <<>>
    ELSE (IF \E j \in 1..(i - 1) : SamePair(arr[j], arr[i])
          THEN <<>> ELSE <<arr[i]>>)
         \o FirstOfEachPair(arr, i + 1)

\* the string sku + "|" + sizeName of a record
JoinedKey(x) == x.sku \o <<"|">> \o x.sizeName

\* the records of arr whose joined key occurs at no earlier place
RECURSIVE FirstOfEachJoinedKey(_, _)
FirstOfEachJoinedKey(arr, i) ==
    IF i > Len(arr) THEN <<>>
    ELSE (IF \E j \in 1..(i - 1) : JoinedKey(arr[j]) = JoinedKey(arr[i])
          THEN <<>> ELSE <<arr[i]>>)
         \o FirstOfEachJoinedKey(arr, i + 1)

\* what each strategy finds in tree t, taken alone
DirectOf(t) == DirectFold(Walk(t, <<>>), Null)
KeyedOf(t)  == KeyedFold(Walk(t, <<>>), <<>>)

\* the calls of a walk of t that reach a sequence
SeqVisits(t) == SelectSeq(Walk(t, <<>>), LAMBDA v : IsArray(v.node))
\* the calls that reach a mapping or sequence under a product/item key
KeyedVisits(t) ==
    SelectSeq(Walk(t, <<>>),
              LAMBDA v : IsObject(v.node) /\ ReProductOrItem(v.key))

\* C1: no two records of the sequence normalizeProducts returns share an
\* identical (sku, sizeName) pair, whichever path produced the result.
C1_NoSharedPair ==
    Returned =>
        \A i, j \in 1..Len(items) :
            i # j => ~SamePair(items[i], items[j])

\* C2: the deduplication step returns exactly the mapped records whose
\* (sku, sizeName) pair occurs at no earlier position, pairs being equal
\* only when both strings are equal.
C2_DedupByExactPair ==
    (Returned /\ Len(strategies) >= 2) =>
        items = FirstOfEachPair(MapAll(buckets), 1)

\* C3: the strategies run in the order direct-products, keyed-bucket,
\* shape-sniffing, and the result comes from one strategy only: from the
\* direct-products set alone when it is non-empty, and otherwise from the
\* keyed buckets alone when they hold a record.
C3_OneStrategyWins ==
    /\ \E n \in 0..3 : strategies = SubSeq(<<"direct", "keyed", "sniff">>, 1, n)
    /\ (Returned /\ ~IsArray(root)) =>
          LET d == DirectOf(root)
              k == KeyedOf(root)
          IN  /\ d # Null =>
                    /\ strategies = <<"direct">>
                    /\ items = MapAll(d.items)
              /\ (d = Null /\ k # <<>>) =>
                    /\ strategies = <<"direct", "keyed">>
                    /\ \A i \in 1..Len(items) :
                          \E j \in 1..Len(k) : items[i] = mapProduct(k[j])

\* a tree whose direct-products set is non-empty and whose keyed buckets
\* hold a record that is not in the output
C3_Witness ==
    /\ Returned /\ ~IsArray(root)
    /\ DirectOf(root) # Null
    /\ \E j \in 1..Len(KeyedOf(root)) :
          /\ ~IsNullish(KeyedOf(root)[j])
          /\ \A i \in 1..Len(items) : items[i] # mapProduct(KeyedOf(root)[j])

\* the sequences of two product-ish mappings that a walk of t reaches
\* under a key matching product|item
C4_Seqs(t) ==
    SelectSeq(KeyedVisits(t),
              LAMBDA v : /\ IsArray(v.node)
                         /\ Len(v.node.items) = 2
                         /\ isProductish(v.node.items[1])
                         /\ isProductish(v.node.items[2]))

\* t has no direct-products set and holds such a sequence
C4_Pre(t) == ~IsArray(t) /\ DirectOf(t) = Null /\ C4_Seqs(t) # <<>>

\* the two mappings of that sequence (of the first one)
C4_Pair(t) == C4_Seqs(t)[1].node.items

\* C4 as stated: such a tree yields exactly two records, one per mapping,
\* in encounter order, whatever fields the mappings carry.
C4_ExactlyTwo ==
    (pc \in {"respond", "catch"} /\ C4_Pre(root)) =>
        /\ pc # "catch"
        /\ items = MapAll(C4_Pair(root))

\* C4_Pre, and nothing else of t lies under a product/item key: the walk
\* reaches that sequence and its two mappings only
C4_PreOnly(t) == Len(KeyedVisits(t)) = 3 /\ C4_Pre(t)

\* C4 amended: when the sequence and its two mappings are all the tree
\* holds under a product/item key, the output is the first mapping's
\* record followed by the second's, the second being left out when its
\* string sku + "|" + sizeName equals the first's; no record comes twice.
C4_TwoUnlessSameKey ==
    (pc \in {"respond", "catch"} /\ C4_PreOnly(root)) =>
        /\ pc # "catch"
        /\ LET pair == C4_Pair(root)
               a == mapProduct(pair[1])
               b == mapProduct(pair[2])
           IN  items = IF JoinedKey(a) = JoinedKey(b)
                       THEN <<a>> ELSE <<a, b>>

C4_Witness ==
    /\ Returned /\ C4_PreOnly(root)
    /\ Len(items) = 2
    /\ items[1].sku = items[2].sku

\* t yields nothing under strategies 1 and 2 and holds one sequence, under
\* a key not matching product|item, of mappings that each have a brandName
C5_Pre(t) ==
    /\ ~IsArray(t)
    /\ DirectOf(t) = Null
    /\ KeyedOf(t) = <<>>
    /\ LET sv == SeqVisits(t)
       IN  /\ Len(sv) = 1
           /\ ~ReProductOrItem(sv[1].key)
           /\ sv[1].node.items # <<>>
           /\ \A i \in 1..Len(sv[1].node.items) :
                 HasKey(sv[1].node.items[i], TreeKey.brandName)

C6_NeverThrows == upstream.kind = "ok" => pc # "catch"

\* t has no key matching the product/item patterns and no product-ish
\* mapping inside any sequence
C7_Pre(t) ==
    LET w == Walk(t, <<>>)
    IN  \A i \in 1..Len(w) :
            /\ ~ReProductOrItem(w[i].key)
            /\ ~ReProductsEnd(w[i].key)
            /\ IsArray(w[i].node) =>
                  \A j \in 1..Len(w[i].node.items) :
                      ~isProductish(w[i].node.items[j])

\* C7: on such a tree normalizeProducts returns the empty sequence without
\* raising, and the handler answers 200 with no items and count 0.
C7_EmptyIsSuccess ==
    (pc \in {"respond", "catch", "done"} /\ query.normalize
        /\ root # Undef /\ C7_Pre(root)) =>
        /\ pc # "catch"
        /\ Returned => items = <<>>
        /\ pc = "done" =>
              /\ res.status = 200
              /\ res.body.items = <<>>
              /\ res.body.count = 0

---------------------------------------------------------------------------
(* Error paths and the listPath override of the SOAP handler               *)

\* the payload of the upstream response holds a fault envelope
FaultCarried ==
    /\ upstream.kind \in {"ok", "http"}
    /\ Truthy(FaultOf(upstream.xml))

\* the text of the Fault element in the payload
FaultRun == CHOOSE r \in {upstream.text[i] : i \in 1..Len(upstream.text)} :
                r.part = "fault"

\* the response body carries the fault: as the parsed fault node, or as a
\* snippet of the payload that holds the whole text of the Fault element
FaultAttached ==
    \/ /\ "fault" \in DOMAIN res.body
       /\ res.body.fault = FaultOf(upstream.xml)
    \/ /\ "bodySnippet" \in DOMAIN res.body
       /\ \E i \in 1..Len(res.body.bodySnippet) :
             res.body.bodySnippet[i] = FaultRun

\* C14: whenever the upstream response carries a structured fault
\* envelope, whatever its HTTP status, the handler answers with a failure
\* result that has the fault detail attached, and makes no further
\* upstream call.
C14_FaultSurfaced ==
    (pc = "done" /\ FaultCarried) =>
        /\ res.status >= 400
        /\ res.body.ok = FALSE
        /\ FaultAttached
        /\ fetches = 1

\* C15: whenever the payload cannot be parsed, the handler answers with a
\* failure result that includes a non-empty snippet of the raw payload of
\* bounded length.
C15_ParseFailureHasSnippet ==
    (pc = "done" /\ upstream.kind = "badxml") =>
        /\ res.status >= 400
        /\ res.body.ok = FALSE
        /\ \E f \in DOMAIN res.body \cap {"bodySnippet", "xmlSnippet"} :
              /\ TextLen(res.body[f]) > 0
              /\ TextLen(res.body[f]) <= SnippetLimit
              /\ res.body[f] = Slice(upstream.text, TextLen(res.body[f]))

\* C16: every request eventually ends with a response having been sent,
\* and a request whose upstream call was cancelled by the 20 s timer ends
\* with status 504 after one upstream call.  (The step that ends the
\* request is the only one that sends a response, and no step follows
\* it.)
C16_TimeoutEndsRequest ==
    <>(/\ pc = "done"
       /\ res.status # 0
       /\ upstream.kind = "abort" => (res.status = 504 /\ fetches = 1))

\* the records at a node: the elements of a sequence, a single mapping as
\* a list of one, nothing otherwise
RecordsAt(v) ==
    CASE v.t = "seq" -> v.items
      [] v.t = "map" -> <<v>>
      [] OTHER -> <<>>

\* C17: with a listPath, the items are exactly mapProduct applied to the
\* records at that path from the result node, in order, a single record
\* counting as a list of one; nothing found elsewhere by the three
\* strategies is returned, also when the path resolves to nothing.
C17_ListPathBypassesHeuristics ==
    (Returned /\ query.listPath # <<>>) =>
        items = MapAll(RecordsAt(getByPath(ResultNodeOf(upstream.xml),
                                           query.listPath)))

\* the children of a node, in the order walk recurses into them
ChildCount(v) ==
    IF v.t = "seq" THEN Len(v.items) ELSE IF v.t = "map" THEN Len(v.kv) ELSE 0
ChildAt(v, i) == IF v.t = "seq" THEN v.items[i] ELSE v.kv[i][2]

\* the positions of the nodes of t: the child indices from the root down
RECURSIVE PathsOf(_)
PathsOf(t) ==
    {<<>>} \cup UNION {{<<i>> \o q : q \in PathsOf(ChildAt(t, i))} :
                          i \in 1..ChildCount(t)}

\* the node at position p
RECURSIVE NodeAt(_, _)
NodeAt(t, p) == IF p = <<>> THEN t ELSE NodeAt(ChildAt(t, p[1]), Tail(p))

\* the key the node at position p is to be visited with: its own key when
\* its parent is a mapping, the key of the sequence when it is an element
RECURSIVE KeyAt(_, _, _)
KeyAt(t, key, p) ==
    IF p = <<>> THEN key
    ELSE KeyAt(ChildAt(t, p[1]),
               IF t.t = "seq" THEN key ELSE t.kv[p[1]][1],
               Tail(p))

\* p comes before q in depth-first pre-order: p is an ancestor of q, or p
\* branches off to an earlier child
PreOrderBefore(p, q) ==
    \/ Len(p) < Len(q) /\ SubSeq(q, 1, Len(p)) = p
    \/ \E k \in 1..Len(p) :
          /\ k <= Len(q)
          /\ SubSeq(p, 1, k - 1) = SubSeq(q, 1, k - 1)
          /\ p[k] < q[k]

\* the calls of walk(t, fn) are one per node of t, the node at each
\* position being visited after exactly the nodes that come before it in
\* pre-order, and with the key that is due to it
WalkIsPreOrder(t) ==
    LET w  == Walk(t, <<>>)
        ps == PathsOf(t)
    IN  /\ Len(w) = Cardinality(ps)
        /\ \A p \in ps :
              w[Cardinality({q \in ps : PreOrderBefore(q, p)}) + 1] =
                  [node |-> NodeAt(t, p), key |-> KeyAt(t, <<>>, p)]

\* C18: walk calls the visitor exactly once for every node of the tree, in
\* depth-first pre-order; an element of a sequence is visited with the key
\* of the sequence, a value of a mapping with its own key, and a scalar as
\* a leaf.
C18_WalkPreOrder ==
    pc = "np_direct" => WalkIsPreOrder(root)

\* a tree has been walked that holds a sequence of two mappings under a
\* key, three levels below the root
C18_Witness ==
    /\ pc = "np_direct"
    /\ \E p \in PathsOf(root) :
          /\ Len(p) >= 3
          /\ NodeAt(root, p).t = "seq"
          /\ Len(NodeAt(root, p).items) = 2
          /\ \A i \in 1..2 : NodeAt(root, p).items[i].t = "map"
          /\ KeyAt(root, <<>>, p) # <<>>

---------------------------------------------------------------------------
(* mapProduct on its own: one call on a record drawn from MapInputs        *)

\* the records with every choice of value, or absence, for each listed key
RECURSIVE RecordsOver(_)
RecordsOver(choices) ==
    IF choices = <<>> THEN {<<>>}
    ELSE LET k    == choices[1][1]
             vals == choices[1][2]
             rest == RecordsOver(Tail(choices))
         IN  rest \cup {<< <<k, v>> >> \o r : v \in vals, r \in rest}

sPrice1250 == <<"1","2",".","5","0">>
sPrice999  == <<"9",".","9","9">>

MapInputs ==
    {MapV(kv) : kv \in RecordsOver(<<
        <<K.SKU, {Str(<<"A">>), EmptyStr, Num(0), Null}>>,
        <<K.Sku, {Str(<<"B">>)}>>,
        <<K.ID, {Num(0), Str(<<"Z">>)}>>,
        <<K.Size, {Str(<<"L">>)}>>,
        <<K.Price, {EmptyStr, Str(sPrice1250), Str(<<"a","b","c">>), Null,
                   Num(500)}>>,
        <<K.CustomerPrice, {Str(sPrice999), Num(0)}>>,
        <<K.Cost, {Str(<<"7">>)}>> >>)}
    \cup {Null, Undef, Str(<<"x">>), Num(100), SeqV(<<>>)}

\* mapProduct(rec)  (sanmar.js:234-257)
MapProductCall ==
    /\ pc = "mp_call"
    /\ IF mapProductThrows(rec)
       THEN pc' = "mp_threw" /\ err' = "TypeError" /\ mapped' = mapped
       ELSE pc' = "mp_done" /\ err' = err /\ mapped' = mapProduct(rec)
    /\ UNCHANGED <<twice, catalogVars, query, upstream, root, directProducts, buckets,
                   strategies, items, res, fetches, rec>>

InitMap ==
    /\ pc = "mp_call"
    /\ rec \in MapInputs
    /\ query = [normalize |-> FALSE, listPath |-> <<>>]
    /\ upstream = [kind |-> "none", status |-> 0, text |-> <<>>, xml |-> Null]
    /\ root = Undef
    /\ directProducts = Null
    /\ buckets = <<>>
    /\ strategies = <<>>
    /\ items = <<>>
    /\ err = ""
    /\ res = [status |-> 0, body |-> Null]
    /\ fetches = 0
    /\ mapped = Null
    /\ twice = Null
    /\ CatalogIdle

NextMap == MapProductCall

SpecMap == InitMap /\ [][NextMap]_vars

\* a value that is present and non-empty
PresentNonEmpty(v) == ~IsNullish(v) /\ v # EmptyStr

\* the first of the values vs that is present and non-empty, or ""
RECURSIVE FirstPresentNonEmpty(_)
FirstPresentNonEmpty(vs) ==
    IF vs = <<>> THEN EmptyStr
    ELSE IF PresentNonEmpty(vs[1]) THEN vs[1]
    ELSE FirstPresentNonEmpty(Tail(vs))

\* C8: mapProduct sets sku to the string of the first alias, in the order
\* SKU, Sku, ..., Id, ID, whose value is present and non-empty (a number
\* such as 0 included), and to "" when no alias has one.
C8_FirstAliasWins ==
    pc = "mp_done" =>
        mapped.sku =
            ToStr(FirstPresentNonEmpty(Props(rec, SkuAliases)))

\* a price candidate that is absent, empty, null or not parseable as a
\* finite number
PriceSkipped(v) == IsNullish(v) \/ v = EmptyStr \/ ToNumber(v).t # "num"

\* the first of the values vs that is not skipped, or 0
RECURSIVE FirstPriceKept(_)
FirstPriceKept(vs) ==
    IF vs = <<>> THEN Num(0)
    ELSE IF ~PriceSkipped(vs[1]) THEN vs[1]
    ELSE FirstPriceKept(Tail(vs))

\* C9: the price is the number parsed from the first of Price,
\* CustomerPrice, SalePrice, Cost that yields a finite number, skipped
\* candidates (absent, empty, null, unparseable) never being turned into 0;
\* it is 0 only when every candidate is skipped.
C9_FirstParseablePrice ==
    pc = "mp_done" =>
        mapped.customerPrice =
            ToNumber(FirstPriceKept(Props(rec, PriceAliases)))

---------------------------------------------------------------------------
(* Unified normalizer (part_000:1-13)                                      *)

Field ==
  [
    brand |-> <<"b","r","a","n","d">>,
    style |-> <<"s","t","y","l","e">>,
    styleName |-> <<"s","t","y","l","e","N","a","m","e">>,
    color |-> <<"c","o","l","o","r">>,
    colorName |-> <<"c","o","l","o","r","N","a","m","e">>,
    size |-> <<"s","i","z","e">>,
    sizeName |-> <<"s","i","z","e","N","a","m","e">>,
    price |-> <<"p","r","i","c","e">>,
    customerPrice |-> <<"c","u","s","t","o","m","e","r","P","r","i","c","e">>,
    retailPrice |-> <<"r","e","t","a","i","l","P","r","i","c","e">>,
    imageFront |-> <<"i","m","a","g","e","F","r","o","n","t">>,
    colorFrontImage |-> <<"c","o","l","o","r","F","r","o","n","t","I","m","a","g","e">>,
    imageBack |-> <<"i","m","a","g","e","B","a","c","k">>,
    colorBackImage |-> <<"c","o","l","o","r","B","a","c","k","I","m","a","g","e">>,
    sku |-> <<"s","k","u">>,
    productId |-> <<"p","r","o","d","u","c","t","I","d">>,
    provider |-> <<"p","r","o","v","i","d","e","r">>
  ]
sSns    == <<"s","n","s">>
sSanmar == <<"s","a","n","m","a","r">>

\* normalizeProduct with the provider always inferred
normalizeProduct_InferProvider(p) ==
    [brand      |-> OrChain(<<Get(p, Field.brand), Get(p, TreeKey.brandName), EmptyStr>>),
     style      |-> OrChain(<<Get(p, Field.style), Get(p, Field.styleName), EmptyStr>>),
     color      |-> OrChain(<<Get(p, Field.color), Get(p, Field.colorName), EmptyStr>>),
     size       |-> OrChain(<<Get(p, Field.size), Get(p, Field.sizeName), EmptyStr>>),
     price      |-> OrChain(<<Get(p, Field.price), Get(p, Field.customerPrice),
                              Get(p, Field.retailPrice), Num(0)>>),
     imageFront |-> OrChain(<<Get(p, Field.imageFront), Get(p, Field.colorFrontImage),
                              EmptyStr>>),
     imageBack  |-> OrChain(<<Get(p, Field.imageBack), Get(p, Field.colorBackImage),
                              EmptyStr>>),
     sku        |-> OrChain(<<Get(p, Field.sku), Get(p, Field.productId), EmptyStr>>),
     provider   |-> IF Truthy(Get(p, Field.customerPrice))
                    THEN Str(sSns) ELSE Str(sSanmar)]

normalizeProduct(p) ==
    [brand      |-> OrChain(<<Get(p, Field.brand), Get(p, TreeKey.brandName), EmptyStr>>),
     style      |-> OrChain(<<Get(p, Field.style), Get(p, Field.styleName), EmptyStr>>),
     color      |-> OrChain(<<Get(p, Field.color), Get(p, Field.colorName), EmptyStr>>),
     size       |-> OrChain(<<Get(p, Field.size), Get(p, Field.sizeName), EmptyStr>>),
     price      |-> OrChain(<<Get(p, Field.price), Get(p, Field.customerPrice),
                              Get(p, Field.retailPrice), Num(0)>>),
     imageFront |-> OrChain(<<Get(p, Field.imageFront), Get(p, Field.colorFrontImage),
                              EmptyStr>>),
     imageBack  |-> OrChain(<<Get(p, Field.imageBack), Get(p, Field.colorBackImage),
                              EmptyStr>>),
     sku        |-> OrChain(<<Get(p, Field.sku), Get(p, Field.productId), EmptyStr>>),
     provider   |-> OrElse(Get(p, Field.provider),
                           IF Truthy(Get(p, Field.customerPrice))
                           THEN Str(sSns) ELSE Str(sSanmar))]

sUrl == <<"h","t","t","p",":","/","/","x","/","a",".","j","p","g">>

UnifiedInputs ==
    {MapV(kv) : kv \in RecordsOver(<<
        <<Field.brand, {EmptyStr, Str(<<"B">>)}>>,
        <<TreeKey.brandName, {Str(<<"N">>)}>>,
        <<Field.price, {Num(0), Num(999)}>>,
        <<Field.customerPrice, {Num(0), Num(999), Num(500)}>>,
        <<Field.retailPrice, {Num(700)}>>,
        <<Field.imageFront, {Str(sUrl)}>>,
        <<Field.colorFrontImage, {Str(sUrl)}>>,
        <<Field.sku, {Str(<<"S">>)}>>,
        <<Field.productId, {Num(100)}>>,
        <<Field.provider, {Str(sSns), Str(sSanmar)}>> >>)}

\* normalizeProduct(rec)
NormalizeProductCall ==
    /\ pc = "un_call"
    /\ mapped' = normalizeProduct(rec)
    /\ pc' = "un_done"
    /\ UNCHANGED <<twice, catalogVars, query, upstream, root, directProducts, buckets,
                   strategies, items, err, res, fetches, rec>>

InitUnified ==
    /\ pc = "un_call"
    /\ rec \in UnifiedInputs
    /\ query = [normalize |-> FALSE, listPath |-> <<>>]
    /\ upstream = [kind |-> "none", status |-> 0, text |-> <<>>, xml |-> Null]
    /\ root = Undef
    /\ directProducts = Null
    /\ buckets = <<>>
    /\ strategies = <<>>
    /\ items = <<>>
    /\ err = ""
    /\ res = [status |-> 0, body |-> Null]
    /\ fetches = 0
    /\ mapped = Null
    /\ twice = Null
    /\ CatalogIdle

\* the object literal normalizeProduct returns  (part_000:2-12), as a value
AsObject(r) ==
    MapV(<< <<Field.brand, r.brand>>, <<Field.style, r.style>>,
            <<Field.color, r.color>>, <<Field.size, r.size>>,
            <<Field.price, r.price>>, <<Field.imageFront, r.imageFront>>,
            <<Field.imageBack, r.imageBack>>, <<Field.sku, r.sku>>,
            <<Field.provider, r.provider>> >>)

\* normalizeProduct(normalizeProduct(rec))
NormalizeAgain ==
    /\ pc = "un_done"
    /\ twice' = normalizeProduct(AsObject(mapped))
    /\ pc' = "un_twice"
    /\ UNCHANGED <<catalogVars, query, upstream, root, directProducts, buckets,
                   strategies, items, err, res, fetches, rec, mapped>>

NextUnified == NormalizeProductCall \/ NormalizeAgain

SpecUnified == InitUnified /\ [][NextUnified]_vars

\* the value of the first of the keys ks that p has, or dflt
RECURSIVE FirstPresent(_, _, _)
FirstPresent(p, ks, dflt) ==
    IF ks = <<>> THEN dflt
    ELSE IF HasKey(p, ks[1]) THEN Get(p, ks[1])
    ELSE FirstPresent(p, Tail(ks), dflt)

\* C10: normalizeProduct resolves each public field to the first field of
\* its resolution list that is present in the record, and to the default
\* only when none is; so a present price, 0 included, is kept over
\* customerPrice.
C10_FirstPresentWins ==
    pc = "un_done" =>
        /\ mapped.price = FirstPresent(rec, <<Field.price, Field.customerPrice,
                                              Field.retailPrice>>, Num(0))
        /\ mapped.brand = FirstPresent(rec, <<Field.brand, TreeKey.brandName>>, EmptyStr)
        /\ mapped.style = FirstPresent(rec, <<Field.style, Field.styleName>>, EmptyStr)
        /\ mapped.color = FirstPresent(rec, <<Field.color, Field.colorName>>, EmptyStr)
        /\ mapped.size = FirstPresent(rec, <<Field.size, Field.sizeName>>, EmptyStr)
        /\ mapped.imageFront = FirstPresent(rec, <<Field.imageFront,
                                   Field.colorFrontImage>>, EmptyStr)
        /\ mapped.imageBack = FirstPresent(rec, <<Field.imageBack,
                                  Field.colorBackImage>>, EmptyStr)
        /\ mapped.sku = FirstPresent(rec, <<Field.sku, Field.productId>>, EmptyStr)

\* the two vendors' records of the cross-vendor scenario
VendorA == MapV(<< <<Field.customerPrice, Num(999)>>,
                   <<Field.colorFrontImage, Str(sUrl)>> >>)
VendorB == MapV(<< <<Field.price, Num(999)>>, <<Field.imageFront, Str(sUrl)>> >>)

\* C11: normalizeProduct sets provider to the explicit provider when the
\* record has one, otherwise to "sns" when the record has a customerPrice
\* field whatever its value (0 included), otherwise to "sanmar"; the
\* vendor A and vendor B records normalize to records that differ in
\* provider only, "sns" for A and "sanmar" for B.
C11_ProviderInferred ==
    /\ pc = "un_done" =>
          mapped.provider =
              IF HasKey(rec, Field.provider) THEN Get(rec, Field.provider)
              ELSE IF HasKey(rec, Field.customerPrice) THEN Str(sSns)
              ELSE Str(sSanmar)
    /\ normalizeProduct(VendorA).provider = Str(sSns)
    /\ normalizeProduct(VendorB) =
          [normalizeProduct(VendorA) EXCEPT !.provider = Str(sSanmar)]

\* C12: normalizing the result of normalizeProduct a second time yields
\* the same record in every field, provider included.
C12_Idempotent ==
    pc = "un_twice" => twice = mapped

\* a record whose provider was inferred as "sns" has been normalized twice
C12_Witness ==
    /\ pc = "un_twice"
    /\ ~HasKey(rec, Field.provider)
    /\ mapped.provider = Str(sSns)
    /\ mapped.price # Num(0)

---------------------------------------------------------------------------
(* The catalog handler (catalog/index.js:5-45).  Vendors are "sns" and     *)
(* "sanmar"; each vendor's fetch either throws or returns a JSON value     *)
(* (sanmar.js:276-283), fixed by the initial state.                        *)

\* the vendor a supplier string names, and the other one
VendorOf(s) == IF s = Str(sSns) THEN "sns" ELSE "sanmar"
OtherVendor(v) == IF v = "sns" THEN "sanmar" ELSE "sns"
VendorName(v) == IF v = "sns" THEN Str(sSns) ELSE Str(sSanmar)

\* v.length
LengthOf(v) ==
    CASE v.t = "seq" -> Num(100 * Len(v.items))
      [] v.t = "str" -> Num(100 * Len(v.s))
      [] OTHER -> Get(v, <<"l","e","n","g","t","h">>)

\* the fallback test with the second fetch never made
NoResults_Never(v) == v # v

\* !rawData || rawData.length === 0  (index.js:17, 26)
NoResults(v) == ~Truthy(v) \/ LengthOf(v) = Num(0)

\* the own enumerable properties { ...p } copies
Spread(p) ==
    CASE p.t = "map" -> p.kv
      [] p.t = "seq" -> [i \in 1..Len(p.items) |-> <<NatStr(i - 1), p.items[i]>>]
      [] p.t = "str" -> [i \in 1..Len(p.s) |-> <<NatStr(i - 1), Str(<<p.s[i]>>)>>]
      [] OTHER -> <<>>

\* { provider: src, ...p }: a provider of p wins over the handler's
WithProvider_KeepExisting(p, src) ==
    LET kv == Spread(p)
    IN  MapV(IF \E i \in 1..Len(kv) : kv[i][1] = Field.provider
             THEN kv
             ELSE <<<<Field.provider, src>>>> \o kv)

\* { ...p, provider: src }  (index.js:37)
WithProvider(p, src) ==
    LET kv == Spread(p)
    IN  MapV(IF \E i \in 1..Len(kv) : kv[i][1] = Field.provider
             THEN [i \in 1..Len(kv) |->
                      IF kv[i][1] = Field.provider
                      THEN <<Field.provider, src>> ELSE kv[i]]
             ELSE Append(kv, <<Field.provider, src>>))

\* rawData.map((p) => normalizeProduct({ ...p, provider: source }))
\* (index.js:36-38)
NormalizeAll(xs, src) ==
    [i \in 1..Len(xs) |-> normalizeProduct(WithProvider(xs[i], src))]

\* supplier = url.searchParams.get("supplier") || "sns", and the branch of
\* a known supplier  (index.js:7, 11-14, 23)
CatalogRoute ==
    /\ pc = "cat_start"
    /\ OrElse(query.supplier, Str(sSns)) \in {Str(sSns), Str(sSanmar)}
    /\ supplier' = OrElse(query.supplier, Str(sSns))
    /\ rawData' = SeqV(<<>>)
    /\ source' = supplier'
    /\ pc' = "cat_primary"
    /\ UNCHANGED <<twice, query, upstream, root, directProducts, buckets,
                   strategies, items, err, res, fetches, rec, mapped,
                   calls, vendors>>

\* return res.status(400).json({ error: "Invalid supplier" })
\* (index.js:32-34)
CatalogInvalid ==
    /\ pc = "cat_start"
    /\ OrElse(query.supplier, Str(sSns)) \notin {Str(sSns), Str(sSanmar)}
    /\ supplier' = OrElse(query.supplier, Str(sSns))
    /\ rawData' = SeqV(<<>>)
    /\ source' = supplier'
    /\ res' = [status |-> 400, body |-> [error |-> "Invalid supplier"]]
    /\ pc' = "done"
    /\ UNCHANGED <<twice, query, upstream, root, directProducts, buckets,
                   strategies, items, err, fetches, rec, mapped,
                   calls, vendors>>

\* the call of the primary vendor's fetch  (index.js:15, 24)
CatalogCallPrimary ==
    /\ pc = "cat_primary"
    /\ calls' = Append(calls, [vendor |-> VendorOf(supplier), settled |-> FALSE])
    /\ fetches' = fetches + 1
    /\ pc' = "cat_await1"
    /\ UNCHANGED <<twice, query, upstream, root, directProducts, buckets,
                   strategies, items, err, res, rec, mapped,
                   supplier, rawData, source, vendors>>

\* the await of it: rawData is assigned, or the rejection is thrown into
\* the catch clause  (index.js:15, 24)
CatalogPrimarySettles ==
    /\ pc = "cat_await1"
    /\ calls' = [calls EXCEPT ![1].settled = TRUE]
    /\ IF vendors[VendorOf(supplier)].kind = "throw"
       THEN pc' = "cat_catch" /\ err' = "Error" /\ rawData' = rawData
       ELSE /\ pc' = "cat_got1" /\ err' = err
            /\ rawData' = vendors[VendorOf(supplier)].value
    /\ UNCHANGED <<twice, query, upstream, root, directProducts, buckets,
                   strategies, items, res, fetches, rec, mapped,
                   supplier, source, vendors>>

\* the fallback: the call of the other vendor's fetch  (index.js:17-19,
\* 26-28)
CatalogCallFallback ==
    /\ pc = "cat_got1"
    /\ NoResults(rawData)
    /\ calls' = Append(calls, [vendor |-> OtherVendor(VendorOf(supplier)),
                               settled |-> FALSE])
    /\ fetches' = fetches + 1
    /\ pc' = "cat_await2"
    /\ UNCHANGED <<twice, query, upstream, root, directProducts, buckets,
                   strategies, items, err, res, rec, mapped,
                   supplier, rawData, source, vendors>>

\* the await of it, and source = <the other vendor>  (index.js:19-20,
\* 28-29)
CatalogFallbackSettles ==
    /\ pc = "cat_await2"
    /\ calls' = [calls EXCEPT ![2].settled = TRUE]
    /\ IF vendors[OtherVendor(VendorOf(supplier))].kind = "throw"
       THEN /\ pc' = "cat_catch" /\ err' = "Error"
            /\ rawData' = rawData /\ source' = source
       ELSE /\ pc' = "cat_got2" /\ err' = err
            /\ rawData' = vendors[OtherVendor(VendorOf(supplier))].value
            /\ source' = VendorName(OtherVendor(VendorOf(supplier)))
    /\ UNCHANGED <<twice, query, upstream, root, directProducts, buckets,
                   strategies, items, res, fetches, rec, mapped,
                   supplier, vendors>>

\* products = rawData.map(...); res.status(200).json(products); rawData.map
\* throws a TypeError when rawData is no array  (index.js:36-40)
CatalogRespond ==
    /\ \/ pc = "cat_got1" /\ ~NoResults(rawData)
       \/ pc = "cat_got2"
    /\ IF IsArray(rawData)
       THEN /\ res' = [status |-> 200,
                       body |-> NormalizeAll(rawData.items, source)]
            /\ pc' = "done" /\ err' = err
       ELSE pc' = "cat_catch" /\ err' = "TypeError" /\ res' = res
    /\ UNCHANGED <<twice, query, upstream, root, directProducts, buckets,
                   strategies, items, fetches, rec, mapped, catalogVars>>

\* the catch clause  (index.js:41-44)
CatalogCatch ==
    /\ pc = "cat_catch"
    /\ res' = [status |-> 500, body |-> [error |-> "Catalog fetch failed"]]
    /\ pc' = "done"
    /\ UNCHANGED <<twice, query, upstream, root, directProducts, buckets,
                   strategies, items, err, fetches, rec, mapped, catalogVars>>

\* raw records a vendor returns
P1 == MapV(<< <<Field.sku, Str(<<"S">>)>>, <<Field.customerPrice, Num(999)>> >>)
P2 == MapV(<< <<Field.provider, Str(sSns)>>, <<Field.price, Num(700)>> >>)
P3 == MapV(<< <<Field.customerPrice, Num(0)>>, <<Field.provider, Str(sSanmar)>> >>)

\* what a vendor's fetch can yield: a rejection, a list of records, null,
\* or a JSON object that is no list
VendorOutcomes ==
    {[kind |-> "throw", value |-> Null]}
    \cup {[kind |-> "return", value |-> v] :
             v \in {SeqV(l) : l \in SeqsUpTo({P1, P2, P3}, MaxItems)}
                   \cup {Null, MapV(<<>>)}}

\* the supplier parameter: absent, empty, a vendor, or something else
Suppliers == {Null, EmptyStr, Str(sSns), Str(sSanmar), Str(<<"x">>)}

InitCatalog ==
    /\ pc = "cat_start"
    /\ query \in [supplier : Suppliers]
    /\ vendors \in [sns : VendorOutcomes, sanmar : VendorOutcomes]
    /\ supplier = Undef
    /\ rawData = Undef
    /\ source = Undef
    /\ calls = <<>>
    /\ upstream = [kind |-> "none", status |-> 0, text |-> <<>>, xml |-> Null]
    /\ root = Undef
    /\ directProducts = Null
    /\ buckets = <<>>
    /\ strategies = <<>>
    /\ items = <<>>
    /\ err = ""
    /\ res = [status |-> 0, body |-> Null]
    /\ fetches = 0
    /\ rec = Null
    /\ mapped = Null
    /\ twice = Null

NextCatalog ==
    \/ CatalogRoute \/ CatalogInvalid \/ CatalogCallPrimary
    \/ CatalogPrimarySettles \/ CatalogCallFallback
    \/ CatalogFallbackSettles \/ CatalogRespond \/ CatalogCatch

SpecCatalog == InitCatalog /\ [][NextCatalog]_vars

\* the supplier the request names is one of the two vendors ("sns" when
\* the parameter is absent or empty)
ValidSupplier ==
    query.supplier \in {Null, EmptyStr, Str(sSns), Str(sSanmar)}
PrimaryVendor ==
    IF query.supplier = Str(sSanmar) THEN "sanmar" ELSE "sns"
SecondaryVendor ==
    IF query.supplier = Str(sSanmar) THEN "sns" ELSE "sanmar"

\* a fetch that returned no record: nothing, or an empty list
ZeroRecords(o) ==
    /\ o.kind = "return"
    /\ \/ o.value \in {Null, Undef}
       \/ o.value.t = "seq" /\ o.value.items = <<>>

\* C13: a request with a valid supplier fetches from the primary vendor
\* once; it makes a second fetch, from the other vendor and only after the
\* first has completed, if and only if the primary fetch returned zero
\* records; no request makes more than two fetches, a request with an
\* invalid supplier makes none, and a fetch that fails ends the request
\* with an error response, no further fetch being made.
C13_FetchPolicy ==
    /\ Len(calls) <= 2 /\ fetches = Len(calls)
    /\ ~ValidSupplier => calls = <<>>
    /\ Len(calls) >= 1 => calls[1].vendor = PrimaryVendor
    /\ Len(calls) = 2 =>
          /\ calls[2].vendor = SecondaryVendor
          /\ calls[1].settled
          /\ ZeroRecords(vendors[PrimaryVendor])
    /\ \A i \in 1..Len(calls) :
          (calls[i].settled /\ vendors[calls[i].vendor].kind = "throw") =>
              /\ Len(calls) = i
              /\ pc \in {"cat_catch", "done"}
              /\ pc = "done" => res.status = 500
    /\ (pc = "done" /\ ValidSupplier) =>
          /\ Len(calls) >= 1
          /\ \A i \in 1..Len(calls) : calls[i].settled
          /\ Len(calls) = 2 <=> ZeroRecords(vendors[PrimaryVendor])

\* the fallback was taken and its records were served
C13_Witness ==
    /\ pc = "done"
    /\ Len(calls) = 2
    /\ res.status = 200
    /\ Len(res.body) > 0

\* C19: every product of a 200 response carries as provider the vendor
\* whose fetch supplied the records: the requested supplier when its fetch
\* returned a record, the other vendor when the fallback was taken; a
\* provider on an upstream record never survives, and all products of one
\* response have the same provider.
C19_ProviderIsServingVendor ==
    (pc = "done" /\ res.status = 200) =>
        \A i \in 1..Len(res.body) :
            res.body[i].provider =
                VendorName(IF ZeroRecords(vendors[PrimaryVendor])
                           THEN SecondaryVendor ELSE PrimaryVendor)

\* the fallback vendor served a record that came with the primary
\* vendor's name as its provider
C19_Witness ==
    /\ pc = "done" /\ res.status = 200
    /\ Len(calls) = 2
    /\ \E i \in 1..Len(res.body) :
          /\ HasKey(vendors[SecondaryVendor].value.items[i], Field.provider)
          /\ Get(vendors[SecondaryVendor].value.items[i], Field.provider)
                = VendorName(PrimaryVendor)

=============================================================================
